---------------------------- MODULE Spec2Model ----------------------------
(***************************************************************************)
(* Model of the sampling / history / alerting core of monitor.py:          *)
(*   - OptimizedMetricStorage (the ring buffer and what its getters hand   *)
(*     out: a numpy slice is a view on the live array, np.roll is a copy), *)
(*   - MonitorApp.check_thresholds (the alert decision per metric),        *)
(*   - MonitorApp.update_stats (the sampling loop of the background        *)
(*     thread) together with on_closing and the Tk callbacks it schedules. *)
(*                                                                         *)
(* Time is counted in ticks of 1/80 s, so that 0.1 s = 8, 0.5 s = 40,      *)
(* 2.0 s = 160 and the factors 0.9 and 1.5 of the loop are exact on the    *)
(* intervals the model uses.                                               *)
(***************************************************************************)
EXTENDS Integers, Sequences, FiniteSets, TLC

VARIABLES
    \* ---- one OptimizedMetricStorage and a reader of it
    storage,        \* the buffer object: max_points, timestamps, values, current_index, is_filled
    added,          \* history: the <<timestamp, value>> pairs added since construction / clear()
    held,           \* what the reader holds: the object a getter returned, or NoRef
    cleared,        \* history: what the last clear() found ("never": no clear() yet)
    \* ---- the alerter (MonitorApp.check_thresholds and its configuration)
    thresholds,             \* self.thresholds: metric -> limit (a dict: keys may be missing)
    grace_period,           \* self.grace_period
    notification_cooldown,  \* self.notification_cooldown: metric -> time of the last firing
    show_notifications,     \* settings['show_notifications']
    last_issue,             \* history: metric -> time of the last notification decided for it
    lastEval,               \* history: what the last check_thresholds call saw and did
    \* ---- the sampling loop (MonitorApp.update_stats) and the Tk side
    running,            \* self.running
    mainloop,           \* whether Tk's mainloop still runs callbacks (false after quit())
    pc,                 \* where the sampling thread is in update_stats
    current_time,       \* local current_time of the iteration
    last_update_time,   \* self.last_update_time
    last_log_time,      \* local last_log_time
    update_interval,    \* self.update_interval
    error_count,        \* local error_count
    snapshot,           \* locals cpu_percent, ram_percent, gpu_percent (NoSnapshot: unbound)
    series,             \* metric -> its OptimizedMetricStorage (cpu_metrics, ram_metrics, gpu_metrics)
    tkQueue,            \* callbacks handed to self.after(0, ...) and not yet run
    configured,         \* settings['update_interval']
    outcome,            \* history: how the last sampling attempt of the cadence path ended
    fail_streak,        \* history: sampler calls in a row that gave no snapshot
    streak_base,        \* history: update_interval when that streak began
    locks,              \* the locks the sampling thread holds
    interval_changed,   \* history: settings['update_interval'] was changed since the loop last waited
    attempt_time,       \* history: when the last sampler call of the cadence path began
    \* ---- the host and the sampler (MonitorApp._get_system_metrics)
    sample_cost,        \* how long one _get_system_metrics call takes on this host
    lastSample,         \* history: the last sampler call made on its own, with its result
    \* ---- the configuration (Settings) and the start of the application
    config_file,        \* what config.json holds
    settings,           \* Settings.settings, the dict load_settings returned
    stage,              \* how far MonitorApp.__init__ has come
    \* ---- a reader of the three series (MonitorApp.update_graph)
    reader,             \* the reads update_graph has made so far in its present call
    \* ---- the clock (time.time())
    now

loopVars  == <<running, mainloop, pc, current_time, last_update_time, last_log_time,
               update_interval, error_count, snapshot, series, tkQueue, configured,
               outcome, fail_streak, streak_base, locks, interval_changed,
               attempt_time>>
hostVars  == <<sample_cost, lastSample>>
cfgVars   == <<config_file, settings, stage>>
readVars  == <<reader>>
bufVars   == <<storage, added, held, cleared>>
alertVars == <<thresholds, grace_period, notification_cooldown, show_notifications,
               last_issue, lastEval>>
vars      == <<bufVars, alertVars, loopVars, hostVars, cfgVars, readVars, now>>

Metrics == <<"cpu", "ram", "gpu">>       \* the order check_thresholds walks them in
MetricSet == {"cpu", "ram", "gpu"}

Min(a, b) == IF a < b THEN a ELSE b
Max(a, b) == IF a > b THEN a ELSE b

-----------------------------------------------------------------------------
(* OptimizedMetricStorage *)

MaxCapacity == 3      \* capacities 1..MaxCapacity are tried
MaxAdds == 4          \* add_metric calls between two clear() calls
BufValues == {0, 1}   \* the values added (0 is also what clear() fills in)
BufTimes == {1, 2}    \* the timestamps passed

NoRef == [kind |-> "none"]

\* __init__: two zeroed arrays of max_points cells, index 0, not filled
OptimizedMetricStorage(max_points) ==
    [max_points    |-> max_points,
     timestamps    |-> [i \in 1..max_points |-> 0],
     values        |-> [i \in 1..max_points |-> 0],
     current_index |-> 0,
     is_filled     |-> FALSE]

\* add_metric(value, timestamp): write at current_index, advance modulo max_points,
\* and set is_filled when the index comes back to 0.  (Arrays are 0-based in the
\* source and 1-based here.)
add_metric(s, value, timestamp) ==
    LET next == (s.current_index + 1) % s.max_points
    IN  [s EXCEPT !.timestamps[s.current_index + 1] = timestamp,
                  !.values[s.current_index + 1]     = value,
                  !.current_index                   = next,
                  !.is_filled                       = IF next = 0 THEN TRUE ELSE @]

\* roll with the shift in the other direction: np.roll(a, +k)
roll_forward(a, k) ==
    [j \in 1..Len(a) |-> a[((j - 1 + Len(a) - k) % Len(a)) + 1]]

\* np.roll(a, -k): element j of the result is element (j + k) mod n of a
roll(a, k) ==
    [j \in 1..Len(a) |-> a[((j - 1 + k) % Len(a)) + 1]]

\* a[:k]
slice(a, k) == SubSeq(a, 1, k)

\* getters that hand out the cells in the order they lie in the array
get_array_unrolled(s, field) ==
    IF s.is_filled
    THEN [kind |-> "copy", field |-> field, len |-> s.max_points,
          data |-> s[field]]
    ELSE [kind |-> "view", field |-> field, len |-> s.current_index,
          data |-> slice(s[field], s.current_index)]

\* The object get_values() / get_timestamps() returns.  When the buffer has wrapped
\* it is np.roll(...), a new array; before that it is the slice array[:current_index],
\* which numpy gives as a view sharing the memory of the live array.  "data" is the
\* content at the moment of the return.
get_array(s, field) ==
    IF s.is_filled
    THEN [kind |-> "copy", field |-> field, len |-> s.max_points,
          data |-> roll(s[field], s.current_index)]
    ELSE [kind |-> "view", field |-> field, len |-> s.current_index,
          data |-> slice(s[field], s.current_index)]

get_values(s)     == get_array(s, "values").data
get_timestamps(s) == get_array(s, "timestamps").data

\* a clear() that only moves the index back to the start
clear_index_only(s) ==
    [s EXCEPT !.current_index = 0]

\* clear(): both arrays are zeroed in place (fill(0)), index and flag reset
clear(s) ==
    [s EXCEPT !.timestamps    = [i \in 1..s.max_points |-> 0],
              !.values        = [i \in 1..s.max_points |-> 0],
              !.current_index = 0,
              !.is_filled     = FALSE]

\* What a reader sees when it looks into an array it was handed earlier: a copy
\* keeps its data, a view shows the present content of the live array.
Deref(ref, s) ==
    IF ref.kind = "view" THEN slice(s[ref.field], ref.len) ELSE ref.data

\* ---- the buffer on its own: one writer (add_metric, clear) and one reader

BufInit ==
    /\ \E c \in 1..MaxCapacity : storage = OptimizedMetricStorage(c)
    /\ added = <<>>
    /\ held = NoRef
    /\ cleared = "never"

BufAdd ==
    /\ Len(added) < MaxAdds
    /\ \E value \in BufValues, timestamp \in BufTimes :
          /\ storage' = add_metric(storage, value, timestamp)
          /\ added' = Append(added, <<timestamp, value>>)
    /\ UNCHANGED <<held, cleared>>
    /\ UNCHANGED <<alertVars, loopVars, hostVars, cfgVars, readVars, now>>

BufClear ==
    /\ storage' = clear(storage)
    /\ added' = <<>>
    /\ cleared' = IF storage.is_filled THEN "wrapped"
                  ELSE IF storage.current_index > 0 THEN "partial" ELSE "empty"
    /\ UNCHANGED held
    /\ UNCHANGED <<alertVars, loopVars, hostVars, cfgVars, readVars, now>>

\* the reader calls get_values() and keeps what it got
ReadValues ==
    /\ held' = get_array(storage, "values")
    /\ UNCHANGED <<storage, added, cleared>>
    /\ UNCHANGED <<alertVars, loopVars, hostVars, cfgVars, readVars, now>>

\* the reader calls get_timestamps() and keeps what it got
ReadTimestamps ==
    /\ held' = get_array(storage, "timestamps")
    /\ UNCHANGED <<storage, added, cleared>>
    /\ UNCHANGED <<alertVars, loopVars, hostVars, cfgVars, readVars, now>>

-----------------------------------------------------------------------------
(* The alerter: MonitorApp.check_thresholds, the later of the two definitions
   of that name in the class and so the one the class has. *)

DefaultThreshold == 80       \* default_settings['thresholds'][...]
DefaultGracePeriod == 24000  \* default_settings['notification_grace_period']: 300 s
MaxClock == 6                \* the alerter is evaluated at times 0..MaxClock
GracePeriods == {2, DefaultGracePeriod}
\* the keys the 'thresholds' object of the config file may give
ConfiguredLimits == {MetricSet, {"ram", "gpu"}, {"cpu", "ram"}}
AlertValues == {80, 85}      \* a value at the limit and one above it

\* self.notification_cooldown.get(resource, default)
dict_get(d, key, default) == IF key \in DOMAIN d THEN d[key] ELSE default

\* d[key] = value on a dict
dict_set(d, key, value) ==
    [k \in (DOMAIN d) \cup {key} |-> IF k = key THEN value ELSE d[k]]

\* value > self.thresholds[resource]
exceeds(value, limit) == value > limit

\* the cooldown test with >= in place of >
cooled_down_nonstrict(at_time, cooldown, resource, grace) ==
    at_time - dict_get(cooldown, resource, 0) >= grace

\* current_time - self.notification_cooldown.get(resource, 0) > self.grace_period
cooled_down(at_time, cooldown, resource, grace) ==
    at_time - dict_get(cooldown, resource, 0) > grace

\* show_notification without its try block: what the sink raises reaches the caller
show_notification_unguarded(enabled, sink_ok) ==
    [delivered |-> enabled /\ sink_ok, raised |-> enabled /\ ~sink_ok]

\* show_notification: the sink is called only when settings['show_notifications']
\* is true, and what the sink raises is logged and swallowed
show_notification(enabled, sink_ok) ==
    [delivered |-> enabled /\ sink_ok, raised |-> FALSE]

\* What one firing does: show_notification(...) is called, then
\* self.notification_cooldown[resource] = current_time.  An exception leaving
\* show_notification would pass the assignment by and reach the except clause
\* of check_thresholds.
fire(acc, resource, at_time, enabled, sink_ok) ==
    LET shown == show_notification(enabled, sink_ok)
        called == [acc EXCEPT !.sink_raised = @ \/ (enabled /\ ~sink_ok)]
    IN  IF shown.raised
        THEN [called EXCEPT !.raised = TRUE]
        ELSE [called EXCEPT !.fired = @ \cup {resource},
                            !.delivered = IF shown.delivered THEN @ \cup {resource} ELSE @,
                            !.cooldown = dict_set(@, resource, at_time)]

\* the loop with a window that every sample above the limit starts anew: the
\* entry is set to the time of the evaluation also when the metric is suppressed
RECURSIVE check_loop_restarting(_, _, _, _, _, _, _, _)
check_loop_restarting(i, value, limits, grace, at_time, enabled, sink_ok, acc) ==
    IF i > Len(Metrics) \/ acc.raised THEN acc
    ELSE LET resource == Metrics[i] IN
         IF resource \notin DOMAIN limits
         THEN [acc EXCEPT !.raised = TRUE]
         ELSE IF exceeds(value[resource], limits[resource])
              THEN IF cooled_down(at_time, acc.cooldown, resource, grace)
                   THEN check_loop_restarting(i + 1, value, limits, grace, at_time,
                                              enabled, sink_ok,
                                              fire(acc, resource, at_time, enabled, sink_ok))
                   ELSE check_loop_restarting(i + 1, value, limits, grace, at_time,
                                              enabled, sink_ok,
                                              [acc EXCEPT !.cooldown =
                                                  dict_set(@, resource, at_time)])
              ELSE check_loop_restarting(i + 1, value, limits, grace, at_time,
                                         enabled, sink_ok, acc)

\* The for loop of check_thresholds from its i-th metric on.  acc carries the
\* cooldown dict, the metrics fired so far and whether the loop was left by an
\* exception: self.thresholds[resource] raises KeyError when the dict has no such
\* key, and the except clause around the whole loop ends the call there.
RECURSIVE check_loop(_, _, _, _, _, _, _, _)
check_loop(i, value, limits, grace, at_time, enabled, sink_ok, acc) ==
    IF i > Len(Metrics) \/ acc.raised THEN acc
    ELSE LET resource == Metrics[i] IN
         IF resource \notin DOMAIN limits
         THEN [acc EXCEPT !.raised = TRUE]
         ELSE IF /\ exceeds(value[resource], limits[resource])
                 /\ cooled_down(at_time, acc.cooldown, resource, grace)
              THEN check_loop(i + 1, value, limits, grace, at_time, enabled, sink_ok,
                              fire(acc, resource, at_time, enabled, sink_ok))
              ELSE check_loop(i + 1, value, limits, grace, at_time, enabled, sink_ok, acc)

\* check_thresholds(cpu, ram, gpu) at time.time() = current_time
check_thresholds(value, limits, grace, cooldown, at_time, enabled, sink_ok) ==
    check_loop(1, value, limits, grace, at_time, enabled, sink_ok,
               [cooldown |-> cooldown, fired |-> {}, delivered |-> {},
                raised |-> FALSE, sink_raised |-> FALSE])

NoEval == [done |-> FALSE]

\* The update of the alerter's state by one call of check_thresholds.  Of the
\* history kept with it, "since" holds the metrics that fired at some time and
\* have been through an evaluation without firing after that, "resampled" what
\* "since" was when the call began.
Evaluate(value, sink_ok) ==
    LET r == check_thresholds(value, thresholds, grace_period,
                              notification_cooldown, now, show_notifications, sink_ok)
    IN  /\ notification_cooldown' = r.cooldown
        /\ last_issue' = [m \in (DOMAIN last_issue) \cup r.fired |->
                              IF m \in r.fired THEN now ELSE last_issue[m]]
        /\ lastEval' = [done        |-> TRUE,
                        at          |-> now,
                        resampled   |-> IF lastEval.done THEN lastEval.since ELSE {},
                        since       |-> ((IF lastEval.done THEN lastEval.since ELSE {})
                                           \cup DOMAIN last_issue) \ r.fired,
                        value       |-> value,
                        before      |-> notification_cooldown,
                        issued      |-> last_issue,
                        fired       |-> r.fired,
                        delivered   |-> r.delivered,
                        sink_raised |-> r.sink_raised,
                        raised      |-> r.raised]

\* _setup_notifications: self.thresholds is the dict of the loaded settings (it
\* holds the keys the config file gave, see Settings.load_settings), no metric has
\* a cooldown entry, and the grace period is the configured one
AlertInit ==
    /\ \E S \in ConfiguredLimits : thresholds = [m \in S |-> DefaultThreshold]
    /\ grace_period \in GracePeriods
    /\ notification_cooldown = << >>
    /\ show_notifications \in BOOLEAN
    /\ last_issue = << >>
    /\ lastEval = NoEval
    /\ now = 0

\* time passes
Tick ==
    /\ now < MaxClock
    /\ now' = now + 1
    /\ UNCHANGED alertVars
    /\ UNCHANGED <<bufVars, loopVars, hostVars, cfgVars, readVars>>

\* update_ui hands a snapshot to check_thresholds
CheckThresholds ==
    /\ \E value \in [MetricSet -> AlertValues], sink_ok \in BOOLEAN :
          Evaluate(value, sink_ok)
    /\ UNCHANGED <<thresholds, grace_period, show_notifications, now>>
    /\ UNCHANGED <<bufVars, loopVars, hostVars, cfgVars, readVars>>

\* CustomizationPanel._on_notifications_toggle
OnNotificationsToggle ==
    /\ show_notifications' = ~show_notifications
    /\ UNCHANGED <<thresholds, grace_period, notification_cooldown, last_issue,
                   lastEval, now>>
    /\ UNCHANGED <<bufVars, loopVars, hostVars, cfgVars, readVars>>

-----------------------------------------------------------------------------
(* The sampler: MonitorApp._get_system_metrics and get_gpu_usage *)

NoSnapshot == [ok |-> FALSE]
NoSample == [done |-> FALSE]

\* the ways get_gpu_usage finds no GPU load: GPU_AVAILABLE is false (GPUtil not
\* installed), getGPUs() lists nothing, gpu.load is None, the query raises
GpuUnavailable == {"nogpu", "nolist", "noload", "gpu"}

\* What the operating system gives one sampler call: the raw readings and which
\* read, if any, fails ("nogpu": GPUtil is absent or lists no GPU).
OsReadings ==
    { [cpu |-> 50,  ram |-> 50, gpu |-> 0,  fault |-> "nogpu"],
      [cpu |-> 130, ram |-> -5, gpu |-> 90, fault |-> "none"],
      [cpu |-> 50,  ram |-> 50, gpu |-> 90, fault |-> "gpu"],
      [cpu |-> 50,  ram |-> 50, gpu |-> 0,  fault |-> "cpu"],
      [cpu |-> 50,  ram |-> 50, gpu |-> 0,  fault |-> "ram"] }

\* the validation without its lower bound: min(100, float(x))
clamp_upper_only(x) == Min(100, x)

\* max(0, min(100, float(x)))
clamp(x) == Max(0, Min(100, x))

\* get_gpu_usage passing on the load it was given whatever the query's outcome
get_gpu_usage_raw(os) == os.gpu

\* get_gpu_usage: 0 when GPUtil is absent, no GPU is listed or the query raises
\* (the exception is caught there), else load * 100
get_gpu_usage(os) == IF os.fault \in GpuUnavailable THEN 0 ELSE os.gpu

\* _get_system_metrics: None when the CPU or the RAM read raises, else the three
\* clamped percentages
get_system_metrics(os) ==
    IF os.fault \in {"cpu", "ram"}
    THEN NoSnapshot
    ELSE [ok  |-> TRUE,
          cpu |-> clamp(os.cpu),
          ram |-> clamp(os.ram),
          gpu |-> clamp(get_gpu_usage(os))]

-----------------------------------------------------------------------------
(* The sampling loop: MonitorApp.update_stats, run by the thread that
   _start_monitoring starts; on_closing; the callbacks given to self.after *)

max_errors == 3              \* update_stats: max_errors = 3
min_update_interval == 8     \* update_stats: min_update_interval = 0.1 (s)
max_update_interval == 160   \* update_stats: max_update_interval = 2.0 (s)
log_interval == 4800         \* update_stats: log_interval = 60 (s)
floor_interval == 40         \* _initialize_metrics: max(0.5, settings['update_interval'])
cpu_sampling_window == 8     \* _get_system_metrics: psutil.cpu_percent(interval=0.1)

ConfigIntervals == {8, 80, 200}   \* settings['update_interval']: 0.1 s, 1.0 s, 2.5 s
StartTime == 4800     \* time.time() when the application starts
MaxRunTicks == 168    \* the loop is followed for this long after the start
LoopCapacity == 2     \* settings['max_data_points']
LoopGrace == 80       \* settings['notification_grace_period'] in the loop runs
MaxQueue == 2         \* callbacks waiting in Tk's queue while the loop runs

\* self.update_interval * 1.5, capped: min(max_update_interval, ...)
backoff(interval) ==
    IF 3 * interval >= 2 * max_update_interval
    THEN max_update_interval
    ELSE (3 * interval) \div 2

\* an except clause that gives the loop up instead of going on
handle_exception_break(count, interval) ==
    [error_count |-> count + 1, update_interval |-> interval, pc |-> "done"]

\* the except clause of the loop body: count the error and, at max_errors, stretch
\* the interval and start counting again; then sleep for the (new) interval
handle_exception(count, interval) ==
    IF count + 1 >= max_errors
    THEN [error_count |-> 0, update_interval |-> backoff(interval), pc |-> "head"]
    ELSE [error_count |-> count + 1, update_interval |-> interval, pc |-> "head"]

\* elapsed = current_time - self.last_update_time
elapsed == current_time - last_update_time

\* the pacing test made against the floor instead of the interval in force
too_early_floor(e, interval) == 10 * e < 9 * min_update_interval

\* elapsed < self.update_interval * 0.9
too_early(e, interval) == 10 * e < 9 * interval

\* a wait that returns at once, however early the loop is
sleep_time_none(e, interval) == 0

\* max(min_update_interval, self.update_interval - elapsed)
sleep_time(e, interval) == Max(min_update_interval, interval - e)

\* the three add_metric calls made under the metrics lock
store_metrics(sr, snap, timestamp) ==
    [m \in MetricSet |-> add_metric(sr[m], snap[m], timestamp)]

\* entering "with lock:" and leaving it (also by an exception)
acquire(held_locks, lock) == held_locks \cup {lock}

\* a with block that keeps the lock when it is left
release_never(held_locks, lock) == held_locks

release(held_locks, lock) == held_locks \ {lock}

\* a close handler that flips the flag: self.running = not self.running
on_closing_toggle(st) ==
    [st EXCEPT !.running = ~@, !.mainloop = ~@]

\* on_closing: self.running = False, stop_profiling() (nothing is being profiled:
\* start_profiling is never called), self.quit()
on_closing(st) ==
    [st EXCEPT !.running = FALSE, !.mainloop = FALSE]

\* the part of the state on_closing works on
closing_state == [running |-> running, mainloop |-> mainloop]

\* a callback handed to self.after(0, ...); "of" is the sample it was created for
callback(fn, snap) == [fn |-> fn, of |-> snap]

\* whether the loop body is entered: while self.running
loop_condition(flag) == flag

InTime(d) == now + d <= StartTime + MaxRunTicks

\* the history of sampler results: a streak of calls without a snapshot
StreakAfter(ok) ==
    IF ok THEN /\ fail_streak' = 0
               /\ streak_base' = update_interval
    ELSE IF fail_streak \in {0, max_errors}
         THEN /\ fail_streak' = 1
              /\ streak_base' = update_interval
         ELSE /\ fail_streak' = fail_streak + 1
              /\ UNCHANGED streak_base

\* MonitorApp.__init__ up to _start_monitoring
LoopStart(intervals) ==
    /\ now = StartTime
    /\ configured \in intervals
    /\ update_interval = Max(floor_interval, configured)
    /\ last_update_time = now
    /\ series = [m \in MetricSet |-> OptimizedMetricStorage(LoopCapacity)]
    /\ running = TRUE
    /\ mainloop = TRUE
    /\ pc = "head"
    /\ current_time = 0
    /\ last_log_time = 0
    /\ error_count = 0
    /\ snapshot = NoSnapshot
    /\ tkQueue = << >>
    /\ outcome = "none"
    /\ fail_streak = 0
    /\ streak_base = update_interval
    /\ locks = {}
    /\ interval_changed = FALSE
    /\ attempt_time = 0

LoopInit == LoopStart(ConfigIntervals)

\* while self.running: false, update_stats returns
LoopExit ==
    /\ pc = "head"
    /\ ~loop_condition(running)
    /\ pc' = "done"
    /\ UNCHANGED <<running, mainloop, current_time, last_update_time, last_log_time,
                   update_interval, error_count, snapshot, series, tkQueue, configured,
                   outcome, fail_streak, streak_base, now>>
    /\ UNCHANGED <<bufVars, alertVars, hostVars, cfgVars, readVars, locks, interval_changed>>
    /\ UNCHANGED attempt_time

\* while self.running: true; current_time = time.time(); the test of the
\* periodic-logging branch
LoopHead ==
    /\ pc = "head"
    /\ loop_condition(running)
    /\ current_time' = now
    /\ pc' = IF now - last_log_time >= log_interval THEN "log" ELSE "pace"
    /\ UNCHANGED <<running, mainloop, last_update_time, last_log_time,
                   update_interval, error_count, snapshot, series, tkQueue, configured,
                   outcome, fail_streak, streak_base, now>>
    /\ UNCHANGED <<bufVars, alertVars, hostVars, cfgVars, readVars, locks, interval_changed>>
    /\ UNCHANGED attempt_time

\* the periodic-logging branch: a sampler call of its own; its result is bound to
\* cpu_percent, ram_percent, gpu_percent and logged.  What log_metrics or the
\* psutil calls in its argument raise reaches the except clause of the loop body,
\* before last_log_time is set.
LogSample ==
    /\ pc = "log"
    /\ InTime(sample_cost)
    /\ now' = now + sample_cost
    /\ \E os \in OsReadings, raises \in BOOLEAN :
          LET metrics == get_system_metrics(os) IN
          /\ StreakAfter(metrics.ok)
          /\ IF ~metrics.ok
             THEN /\ ~raises
                  /\ UNCHANGED snapshot
                  /\ last_log_time' = current_time
                  /\ pc' = "pace"
             ELSE /\ snapshot' = metrics
                  /\ IF raises
                     THEN /\ pc' = "except"
                          /\ UNCHANGED last_log_time
                     ELSE /\ pc' = "pace"
                          /\ last_log_time' = current_time
    /\ UNCHANGED <<running, mainloop, current_time, last_update_time,
                   update_interval, error_count, series, tkQueue, configured,
                   outcome>>
    /\ UNCHANGED <<bufVars, alertVars, hostVars, cfgVars, readVars, locks, interval_changed>>
    /\ UNCHANGED attempt_time

\* elapsed < update_interval * 0.9: sleep and continue
PaceSleep ==
    /\ pc = "pace"
    /\ too_early(elapsed, update_interval)
    /\ InTime(sleep_time(elapsed, update_interval))
    /\ now' = now + sleep_time(elapsed, update_interval)
    /\ pc' = "head"
    /\ UNCHANGED <<running, mainloop, current_time, last_update_time, last_log_time,
                   update_interval, error_count, snapshot, series, tkQueue, configured,
                   outcome, fail_streak, streak_base>>
    /\ interval_changed' = FALSE
    /\ UNCHANGED <<bufVars, alertVars, hostVars, cfgVars, readVars, locks>>
    /\ UNCHANGED attempt_time

\* otherwise go on to the metrics update
PaceGo ==
    /\ pc = "pace"
    /\ ~too_early(elapsed, update_interval)
    /\ pc' = "sample"
    /\ UNCHANGED <<running, mainloop, current_time, last_update_time, last_log_time,
                   update_interval, error_count, snapshot, series, tkQueue, configured,
                   outcome, fail_streak, streak_base, now>>
    /\ UNCHANGED <<bufVars, alertVars, hostVars, cfgVars, readVars, locks, interval_changed>>
    /\ UNCHANGED attempt_time

\* metrics = self._get_system_metrics() gives a snapshot: it is bound to
\* cpu_percent, ram_percent, gpu_percent
SampleOk ==
    /\ pc = "sample"
    /\ InTime(sample_cost)
    /\ now' = now + sample_cost
    /\ \E os \in OsReadings :
          /\ get_system_metrics(os).ok
          /\ snapshot' = get_system_metrics(os)
    /\ StreakAfter(TRUE)
    /\ pc' = "store"
    /\ UNCHANGED <<running, mainloop, current_time, last_update_time, last_log_time,
                   update_interval, error_count, series, tkQueue, configured,
                   outcome>>
    /\ UNCHANGED <<bufVars, alertVars, hostVars, cfgVars, readVars, locks, interval_changed>>
    /\ attempt_time' = now

\* metrics = self._get_system_metrics() gives None: "if metrics:" is skipped and
\* the body ends; nothing is counted, nothing slept, last_update_time stays
SampleFail ==
    /\ pc = "sample"
    /\ InTime(sample_cost)
    /\ now' = now + sample_cost
    /\ \E os \in OsReadings : ~get_system_metrics(os).ok
    /\ StreakAfter(FALSE)
    /\ outcome' = "no_snapshot"
    /\ pc' = "head"
    /\ UNCHANGED <<running, mainloop, current_time, last_update_time, last_log_time,
                   update_interval, error_count, snapshot, series, tkQueue, configured>>
    /\ UNCHANGED <<bufVars, alertVars, hostVars, cfgVars, readVars, locks, interval_changed>>
    /\ attempt_time' = now

\* with self._get_metrics_lock(): the three add_metric calls (each under the
\* series' own lock for the time of the call); the thread is then at the log_debug
\* inside the block
StoreLocked ==
    /\ pc = "store"
    /\ locks' = acquire(locks, "metrics_lock")
    /\ series' = store_metrics(series, snapshot, current_time)
    /\ pc' = "locked"
    /\ UNCHANGED <<running, mainloop, current_time, last_update_time, last_log_time,
                   update_interval, error_count, snapshot, tkQueue, configured,
                   outcome, fail_streak, streak_base, now>>
    /\ UNCHANGED <<bufVars, alertVars, hostVars, cfgVars, readVars, interval_changed>>
    /\ UNCHANGED attempt_time

\* the loop calling check_thresholds itself on the sample it stored, in place of
\* leaving it to the callback
StoreAndCheck ==
    /\ pc = "locked"
    /\ running => Len(tkQueue) + 2 <= MaxQueue
    /\ locks' = release(locks, "metrics_lock")
    /\ tkQueue' = tkQueue \o <<callback("update_ui", snapshot),
                               callback("update_graph", snapshot)>>
    /\ last_update_time' = current_time
    /\ outcome' = "ok"
    /\ pc' = "head"
    /\ \E sink_ok \in BOOLEAN :
          Evaluate([m \in MetricSet |-> snapshot[m]], sink_ok)
    /\ UNCHANGED <<thresholds, grace_period, show_notifications>>
    /\ UNCHANGED <<running, mainloop, current_time, last_log_time,
                   update_interval, error_count, snapshot, series, configured,
                   fail_streak, streak_base, now>>
    /\ UNCHANGED <<bufVars, hostVars, cfgVars, readVars, interval_changed>>
    /\ UNCHANGED attempt_time

\* the block is left, update_ui (a lambda over the locals) and update_graph
\* are handed to self.after, and last_update_time = current_time
Store ==
    /\ pc = "locked"
    /\ running => Len(tkQueue) + 2 <= MaxQueue
    /\ locks' = release(locks, "metrics_lock")
    /\ tkQueue' = tkQueue \o <<callback("update_ui", snapshot),
                               callback("update_graph", snapshot)>>
    /\ last_update_time' = current_time
    /\ outcome' = "ok"
    /\ pc' = "head"
    /\ UNCHANGED <<running, mainloop, current_time, last_log_time,
                   update_interval, error_count, snapshot, series, configured,
                   fail_streak, streak_base, now>>
    /\ UNCHANGED <<bufVars, alertVars, hostVars, cfgVars, readVars, interval_changed>>
    /\ UNCHANGED attempt_time

\* the same with an exception inside the inner try, raised by log_debug under the
\* lock or by self.after (Tk refuses a call from another thread once its mainloop
\* has ended).  The three add_metric calls are done by then, the with block gives
\* the lock back and nothing is handed to Tk; the inner except clause counts the
\* error, and last_update_time = current_time follows.
StoreError ==
    /\ pc = "locked"
    /\ locks' = release(locks, "metrics_lock")
    /\ UNCHANGED tkQueue
    /\ error_count' = error_count + 1
    /\ last_update_time' = current_time
    /\ outcome' = "store_error"
    /\ pc' = "head"
    /\ UNCHANGED <<running, mainloop, current_time, last_log_time,
                   update_interval, snapshot, series, configured,
                   fail_streak, streak_base, now>>
    /\ UNCHANGED <<bufVars, alertVars, hostVars, cfgVars, readVars, interval_changed>>
    /\ UNCHANGED attempt_time

\* except Exception of the loop body, then time.sleep(self.update_interval)
Except ==
    /\ pc = "except"
    /\ LET h == handle_exception(error_count, update_interval) IN
          /\ InTime(h.update_interval)
          /\ error_count' = h.error_count
          /\ update_interval' = h.update_interval
          /\ now' = now + h.update_interval
          /\ pc' = h.pc
    /\ outcome' = "exception"
    /\ UNCHANGED <<running, mainloop, current_time, last_update_time, last_log_time,
                   snapshot, series, tkQueue, configured,
                   fail_streak, streak_base>>
    /\ interval_changed' = FALSE
    /\ UNCHANGED <<bufVars, alertVars, hostVars, cfgVars, readVars, locks>>
    /\ UNCHANGED attempt_time

\* on_closing: self.running = False, then self.quit() ends Tk's mainloop
OnClosing ==
    /\ running' = on_closing(closing_state).running
    /\ mainloop' = on_closing(closing_state).mainloop
    /\ UNCHANGED <<pc, current_time, last_update_time, last_log_time,
                   update_interval, error_count, snapshot, series, tkQueue, configured,
                   outcome, fail_streak, streak_base, now>>
    /\ UNCHANGED <<bufVars, alertVars, hostVars, cfgVars, readVars, locks, interval_changed>>
    /\ UNCHANGED attempt_time

\* CustomizationPanel._on_interval_change, run by Tk when the slider or one of its
\* buttons is used: the setting is changed and saved, and apply_settings redoes
\* the theme and the graph; self.update_interval is not touched
OnIntervalChange ==
    /\ mainloop
    /\ \E value \in ConfigIntervals \ {configured} : configured' = value
    /\ interval_changed' = TRUE
    /\ UNCHANGED <<running, mainloop, pc, current_time, last_update_time, last_log_time,
                   update_interval, error_count, snapshot, series, tkQueue,
                   outcome, fail_streak, streak_base, locks, now>>
    /\ UNCHANGED <<bufVars, alertVars, hostVars, cfgVars, readVars>>
    /\ UNCHANGED attempt_time

\* Tk runs the lambda given to self.after: update_ui(cpu_percent, ram_percent,
\* gpu_percent) with what the three locals of update_stats hold at that moment,
\* and update_ui ends with check_thresholds on those values
UpdateUi ==
    /\ mainloop
    /\ tkQueue /= << >>
    /\ Head(tkQueue).fn = "update_ui"
    /\ tkQueue' = Tail(tkQueue)
    /\ \E sink_ok \in BOOLEAN :
          Evaluate([m \in MetricSet |-> snapshot[m]], sink_ok)
    /\ UNCHANGED <<thresholds, grace_period, show_notifications>>
    /\ UNCHANGED <<running, mainloop, pc, current_time, last_update_time, last_log_time,
                   update_interval, error_count, snapshot, series, configured,
                   outcome, fail_streak, streak_base, now>>
    /\ UNCHANGED <<bufVars, hostVars, cfgVars, readVars, locks, interval_changed>>
    /\ UNCHANGED attempt_time

\* Tk runs update_graph: it reads the series and draws
UpdateGraph ==
    /\ mainloop
    /\ tkQueue /= << >>
    /\ Head(tkQueue).fn = "update_graph"
    /\ tkQueue' = Tail(tkQueue)
    /\ UNCHANGED <<running, mainloop, pc, current_time, last_update_time, last_log_time,
                   update_interval, error_count, snapshot, series, configured,
                   outcome, fail_streak, streak_base, now>>
    /\ UNCHANGED <<bufVars, alertVars, hostVars, cfgVars, readVars, locks, interval_changed>>
    /\ UNCHANGED attempt_time

-----------------------------------------------------------------------------
(* The series as another thread sees them: the three add_metric calls of the
   loop one by one, and the reads of update_graph one by one *)

NoReads == << >>

\* the reads update_graph makes, in its order: cpu_metrics.get_timestamps(),
\* then get_values() of cpu_metrics, ram_metrics, gpu_metrics
GraphReads ==
    << <<"cpu", "timestamps">>, <<"cpu", "values">>,
       <<"ram", "values">>, <<"gpu", "values">> >>

\* one read: the array the getter returns (under the series' own lock), and as
\* history the timestamps of the samples its entries belong to
read_series(s, field) ==
    [data |-> get_array(s, field).data, of |-> get_timestamps(s)]

\* which series the thread appends to next, and where it is after that
append_target(at) ==
    CASE at = "store"      -> [metric |-> "cpu", then |-> "append_ram"]
      [] at = "append_ram" -> [metric |-> "ram", then |-> "append_gpu"]
      [] at = "append_gpu" -> [metric |-> "gpu", then |-> "locked"]

\* with self._get_metrics_lock(): one of the three add_metric calls
AppendMetric ==
    /\ pc \in {"store", "append_ram", "append_gpu"}
    /\ locks' = acquire(locks, "metrics_lock")
    /\ LET t == append_target(pc) IN
          /\ series' = [series EXCEPT ![t.metric] =
                            add_metric(@, snapshot[t.metric], current_time)]
          /\ pc' = t.then
    /\ UNCHANGED <<running, mainloop, current_time, last_update_time, last_log_time,
                   update_interval, error_count, snapshot, tkQueue, configured,
                   outcome, fail_streak, streak_base, now>>
    /\ UNCHANGED <<bufVars, alertVars, hostVars, cfgVars, readVars, interval_changed,
                   attempt_time>>

\* Tk runs update_graph: its next read of a series.  No lock is held across the
\* reads; after the first one the method returns when it got fewer than two
\* timestamps.
GraphRead ==
    /\ mainloop
    /\ tkQueue /= << >>
    /\ Head(tkQueue).fn = "update_graph"
    /\ Len(reader) < Len(GraphReads)
    /\ Len(reader) >= 1 => Len(reader[1].data) >= 2
    /\ LET next_read == GraphReads[Len(reader) + 1] IN
          reader' = Append(reader, read_series(series[next_read[1]], next_read[2]))
    /\ UNCHANGED <<bufVars, alertVars, loopVars, hostVars, cfgVars, now>>

\* update_graph returns: after the four reads (it compares the lengths and
\* draws), or early
GraphReturn ==
    /\ mainloop
    /\ tkQueue /= << >>
    /\ Head(tkQueue).fn = "update_graph"
    /\ IF Len(reader) = Len(GraphReads) THEN TRUE
       ELSE IF Len(reader) >= 1 THEN Len(reader[1].data) < 2 ELSE FALSE
    /\ tkQueue' = Tail(tkQueue)
    /\ reader' = NoReads
    /\ UNCHANGED <<running, mainloop, pc, current_time, last_update_time, last_log_time,
                   update_interval, error_count, snapshot, series, configured,
                   outcome, fail_streak, streak_base, locks, interval_changed,
                   attempt_time, now>>
    /\ UNCHANGED <<bufVars, alertVars, hostVars, cfgVars>>

-----------------------------------------------------------------------------
(* The configuration: Settings.load_settings, and MonitorApp.__init__ reading
   what it returned *)

DefaultUpdateInterval == 80  \* default_settings['update_interval']: 1.0 s
DefaultMaxDataPoints == 60   \* default_settings['max_data_points']

\* the values json.load gives
Absent == [type |-> "absent"]
Null == [type |-> "null"]
Bool(b) == [type |-> "bool", b |-> b]
Num(n) == [type |-> "number", n |-> n]
Str(text) == [type |-> "string", text |-> text]
Arr == [type |-> "array"]
Obj(members) == [type |-> "object", members |-> members]

\* Settings.__init__: self.default_settings
default_settings ==
    [update_interval           |-> Num(DefaultUpdateInterval),
     max_data_points           |-> Num(DefaultMaxDataPoints),
     show_notifications        |-> Bool(TRUE),
     notification_grace_period |-> Num(DefaultGracePeriod),
     thresholds                |-> Obj([m \in MetricSet |-> Num(DefaultThreshold)]),
     graph                     |-> Obj([k \in {"show"} |-> Bool(TRUE)])]

\* {**a, **b}: the keys of both, b's value where both have the key
merge(a, b) ==
    [k \in (DOMAIN a) \cup (DOMAIN b) |-> IF k \in DOMAIN b THEN b[k] ELSE a[k]]

\* {k: v for k, v in thresholds.items() if k in ['cpu', 'ram', 'gpu']}
known_thresholds(t) ==
    Obj([k \in (DOMAIN t.members) \cap MetricSet |-> t.members[k]])

\* load_settings.  No file: a copy of the defaults.  open() or json.load raising,
\* a document that is no object ('thresholds' in x or {**d, **x} raises TypeError),
\* a 'thresholds' member that is no object (.items() raises): the except clause
\* returns a copy of the defaults.  Else the loaded object, its 'thresholds'
\* filtered to the known metrics, laid over the defaults key by key.
load_settings(file) ==
    IF file.kind /= "json" THEN default_settings
    ELSE IF file.value.type /= "object" THEN default_settings
    ELSE LET loaded == file.value.members IN
         IF "thresholds" \in DOMAIN loaded
         THEN IF loaded["thresholds"].type /= "object"
              THEN default_settings
              ELSE merge(default_settings,
                         [loaded EXCEPT !["thresholds"] = known_thresholds(@)])
         ELSE merge(default_settings, loaded)

\* what MonitorApp.__init__ does with the settings before the thread is started:
\* _setup_window reads settings['theme'] (KeyError when the key is not there),
\* _initialize_metrics builds the series with np.zeros(max_data_points) and takes
\* max(0.5, settings['update_interval']) (TypeError when that is no number).
\* "ok" when none of them raises.
startup(st) ==
    IF "theme" \notin DOMAIN st THEN "KeyError"
    ELSE IF st["max_data_points"].type /= "number" THEN "TypeError"
    ELSE IF st["update_interval"].type \notin {"number", "bool"} THEN "TypeError"
    ELSE "ok"

\* self.thresholds = self.settings.settings['thresholds']: the dict itself
limits_of(st) ==
    [m \in DOMAIN st["thresholds"].members |-> st["thresholds"].members[m].n]

\* what config.json may hold
ConfigLimit == 50
ConfigMetricKeys ==
    {{"ram", "gpu"}, {"cpu", "ram"}, {"cpu", "gpu"}, MetricSet \cup {"disk"}}
ConfigThresholds ==
    {Num(ConfigLimit)} \cup {Obj([k \in S |-> Num(ConfigLimit)]) : S \in ConfigMetricKeys}
Member(key, v) == IF v = Absent THEN << >> ELSE (key :> v)
ConfigObjects ==
    { Member("theme", th) @@ Member("update_interval", ui)
        @@ Member("thresholds", t) @@ Member("notification_grace_period", g) :
      th \in {Absent, Str("dark")},
      ui \in {Absent, Str("fast")},
      t \in {Absent} \cup ConfigThresholds,
      g \in {Absent, Num(2)} }
ConfigFiles ==
    {[kind |-> "missing"], [kind |-> "unreadable"], [kind |-> "invalid"]}
    \cup {[kind |-> "json", value |-> v] :
             v \in {Null, Num(1), Str("thresholds"), Arr} \cup {Obj(o) : o \in ConfigObjects}}

NoSettings == << >>

\* Settings(): self.settings = self.load_settings()
LoadSettings ==
    /\ stage = "new"
    /\ settings' = load_settings(config_file)
    /\ stage' = "loaded"
    /\ UNCHANGED <<config_file, now>>
    /\ UNCHANGED <<bufVars, alertVars, loopVars, hostVars, readVars>>

\* the rest of MonitorApp.__init__: it ends in an exception, or the alerter and
\* the interval are set up from the settings (_initialize_metrics,
\* _setup_notifications) and _start_monitoring starts the sampling thread
StartApp ==
    /\ stage = "loaded"
    /\ IF startup(settings) /= "ok"
       THEN /\ stage' = "crashed"
            /\ UNCHANGED <<alertVars, loopVars>>
       ELSE /\ stage' = "started"
            /\ thresholds' = limits_of(settings)
            /\ grace_period' = settings["notification_grace_period"].n
            /\ notification_cooldown' = << >>
            /\ show_notifications' = settings["show_notifications"].b
            /\ configured' = settings["update_interval"].n
            /\ update_interval' = Max(floor_interval, settings["update_interval"].n)
            /\ streak_base' = Max(floor_interval, settings["update_interval"].n)
            /\ series' = [m \in MetricSet |->
                              OptimizedMetricStorage(settings["max_data_points"].n)]
            /\ last_update_time' = now
            /\ running' = TRUE
            /\ mainloop' = TRUE
            /\ pc' = "head"
            /\ UNCHANGED <<last_issue, lastEval>>
            /\ UNCHANGED <<current_time, last_log_time, error_count, snapshot, tkQueue,
                           outcome, fail_streak, locks, interval_changed, attempt_time>>
    /\ UNCHANGED <<config_file, settings, now>>
    /\ UNCHANGED <<bufVars, hostVars, readVars>>

\* update_ui hands a snapshot to check_thresholds of the started application
CheckConfigured ==
    /\ stage = "started"
    /\ CheckThresholds

-----------------------------------------------------------------------------
(* The specifications.  Each one runs one part; the variables of the other
   parts keep the values they are given at the start. *)

BufIdle ==
    /\ storage = OptimizedMetricStorage(1)
    /\ added = << >>
    /\ held = NoRef
    /\ cleared = "never"

AlertIdle ==
    /\ thresholds = [m \in MetricSet |-> DefaultThreshold]
    /\ grace_period = DefaultGracePeriod
    /\ notification_cooldown = << >>
    /\ show_notifications = TRUE
    /\ last_issue = << >>
    /\ lastEval = NoEval

LoopIdle ==
    /\ configured = 80
    /\ update_interval = 80
    /\ last_update_time = 0
    /\ series = [m \in MetricSet |-> OptimizedMetricStorage(1)]
    /\ running = FALSE
    /\ mainloop = FALSE
    /\ pc = "done"
    /\ current_time = 0
    /\ last_log_time = 0
    /\ error_count = 0
    /\ snapshot = NoSnapshot
    /\ tkQueue = << >>
    /\ outcome = "none"
    /\ fail_streak = 0
    /\ streak_base = 80
    /\ locks = {}
    /\ interval_changed = FALSE
    /\ attempt_time = 0

\* the host as the loop runs are made on: a sampler call takes its CPU window
HostIdle ==
    /\ sample_cost = cpu_sampling_window
    /\ lastSample = NoSample

\* an application started from the compiled-in defaults
CfgIdle ==
    /\ config_file = [kind |-> "missing"]
    /\ settings = default_settings
    /\ stage = "started"

ReaderIdle == reader = NoReads

\* ---- the ring buffer with its writer and a reader
InitBuffer ==
    BufInit /\ AlertIdle /\ LoopIdle /\ HostIdle /\ CfgIdle /\ ReaderIdle /\ now = 0

NextBuffer ==
    \/ BufAdd
    \/ BufClear
    \/ ReadValues
    \/ ReadTimestamps

SpecBuffer == InitBuffer /\ [][NextBuffer]_vars

\* ---- the alerter under a passing clock
InitAlert == AlertInit /\ BufIdle /\ LoopIdle /\ HostIdle /\ CfgIdle /\ ReaderIdle

NextAlert ==
    \/ Tick
    \/ CheckThresholds
    \/ OnNotificationsToggle

SpecAlert == InitAlert /\ [][NextAlert]_vars

\* ---- the sampler on its own, and check_thresholds on what it returns
RawPercents == {-5, 0, 50, 100, 130}    \* what psutil / GPUtil may give as a percentage
SamplerFaults == {"none", "cpu", "ram"} \cup GpuUnavailable
SamplerReadings ==
    [cpu : RawPercents, ram : RawPercents, gpu : RawPercents, fault : SamplerFaults]
GpuLimits == {0, 50, 100}               \* the limits tried for the GPU
SamplerTimes == {0, 3}                  \* inside and outside a grace period of 2 from 0

\* one call of _get_system_metrics, made on its own: the runs followed here take
\* samples until one gives a snapshot
GetSystemMetrics ==
    /\ IF lastSample.done THEN ~lastSample.metrics.ok ELSE TRUE
    /\ \E os \in SamplerReadings :
          lastSample' = [done    |-> TRUE,
                         os      |-> os,
                         metrics |-> get_system_metrics(os),
                         checked |-> FALSE]
    /\ UNCHANGED <<sample_cost, now>>
    /\ UNCHANGED <<bufVars, alertVars, loopVars, cfgVars, readVars>>

\* update_ui hands the snapshot just sampled to check_thresholds
CheckSnapshot ==
    /\ lastSample.done
    /\ lastSample.metrics.ok
    /\ ~lastSample.checked
    /\ lastSample' = [lastSample EXCEPT !.checked = TRUE]
    /\ \E sink_ok \in BOOLEAN :
          Evaluate([m \in MetricSet |-> lastSample.metrics[m]], sink_ok)
    /\ UNCHANGED <<thresholds, grace_period, show_notifications, sample_cost, now>>
    /\ UNCHANGED <<bufVars, loopVars, cfgVars, readVars>>

\* every GPU limit and cooldown state: the GPU never fired, or fired at time 0
\* with the clock inside or outside the grace period
InitSampler ==
    /\ sample_cost = cpu_sampling_window
    /\ lastSample = NoSample
    /\ \E limit \in GpuLimits :
          thresholds = [m \in MetricSet |-> IF m = "gpu" THEN limit ELSE DefaultThreshold]
    /\ grace_period = 2
    /\ \E fired_before \in BOOLEAN :
          /\ notification_cooldown = IF fired_before THEN [gpu |-> 0] ELSE << >>
          /\ last_issue = notification_cooldown
    /\ show_notifications = TRUE
    /\ lastEval = NoEval
    /\ now \in SamplerTimes
    /\ BufIdle
    /\ LoopIdle
    /\ CfgIdle
    /\ ReaderIdle

NextSampler ==
    \/ GetSystemMetrics
    \/ CheckSnapshot

SpecSampler == InitSampler /\ [][NextSampler]_vars

\* ---- the application: the sampling thread, on_closing and the Tk callbacks
AppStart(intervals) ==
    /\ LoopStart(intervals)
    /\ BufIdle
    /\ HostIdle
    /\ CfgIdle
    /\ ReaderIdle
    /\ thresholds = [m \in MetricSet |-> DefaultThreshold]
    /\ grace_period = LoopGrace
    /\ notification_cooldown = << >>
    /\ show_notifications = TRUE
    /\ last_issue = << >>
    /\ lastEval = NoEval

Init == AppStart(ConfigIntervals)

Next ==
    \/ LoopExit
    \/ LoopHead
    \/ LogSample
    \/ PaceSleep
    \/ PaceGo
    \/ SampleOk
    \/ SampleFail
    \/ StoreLocked
    \/ Store
    \/ StoreError
    \/ Except
    \/ OnClosing
    \/ UpdateUi
    \/ UpdateGraph

Spec == Init /\ [][Next]_vars

\* ---- the application with the interval setting changed while it runs
InitReload ==
    /\ Init
    /\ configured = 80

NextReload ==
    \/ LoopExit
    \/ LoopHead
    \/ LogSample
    \/ PaceSleep
    \/ PaceGo
    \/ SampleOk
    \/ SampleFail
    \/ StoreLocked
    \/ Store
    \/ StoreError
    \/ Except
    \/ OnClosing
    \/ OnIntervalChange
    \/ UpdateUi
    \/ UpdateGraph

SpecReload == InitReload /\ [][NextReload]_vars

\* ---- the application on hosts that differ in what a sampler call costs: the
\* CPU window alone, or 0.45 s with a slow GPU query (GPUtil runs nvidia-smi)
SampleCosts == {cpu_sampling_window, 36}

InitHost ==
    /\ LoopInit
    /\ configured = min_update_interval
    /\ sample_cost \in SampleCosts
    /\ lastSample = NoSample
    /\ BufIdle
    /\ CfgIdle
    /\ ReaderIdle
    /\ thresholds = [m \in MetricSet |-> DefaultThreshold]
    /\ grace_period = LoopGrace
    /\ notification_cooldown = << >>
    /\ show_notifications = TRUE
    /\ last_issue = << >>
    /\ lastEval = NoEval

SpecHost == InitHost /\ [][Next]_vars

\* ---- the application under fair scheduling: the sampling thread, when it can
\* take a step of update_stats, takes one in the end (the operating system runs
\* a runnable thread, time.sleep returns), and Tk's mainloop runs the callbacks
\* handed to self.after
SamplingThread ==
    \/ LoopExit
    \/ LoopHead
    \/ LogSample
    \/ PaceSleep
    \/ PaceGo
    \/ SampleOk
    \/ SampleFail
    \/ StoreLocked
    \/ Store
    \/ StoreError
    \/ Except

LiveInterval == 56    \* settings['update_interval'] in the runs under fairness: 0.7 s

InitLive == AppStart({LiveInterval})

SpecLive ==
    /\ InitLive
    /\ [][Next]_vars
    /\ WF_vars(SamplingThread)
    /\ WF_vars(UpdateUi)
    /\ WF_vars(UpdateGraph)

\* ---- the running application with the appends and the reads of the series as
\* separate steps of the two threads
InitReader ==
    /\ Init
    /\ configured = min_update_interval

NextReader ==
    \/ LoopHead
    \/ LogSample
    \/ PaceSleep
    \/ PaceGo
    \/ SampleOk
    \/ SampleFail
    \/ AppendMetric
    \/ Store
    \/ StoreError
    \/ Except
    \/ UpdateUi
    \/ GraphRead
    \/ GraphReturn

SpecReader == InitReader /\ [][NextReader]_vars

\* ---- the start of the application on every content of config.json, and the
\* alerter it sets up
InitConfig ==
    /\ config_file \in ConfigFiles
    /\ settings = NoSettings
    /\ stage = "new"
    /\ AlertIdle
    /\ BufIdle
    /\ LoopIdle
    /\ HostIdle
    /\ ReaderIdle
    /\ now = 0

NextConfig ==
    \/ LoadSettings
    \/ StartApp
    \/ CheckConfigured
    \/ Tick

SpecConfig == InitConfig /\ [][NextConfig]_vars

-----------------------------------------------------------------------------
(* Properties of the ring buffer, checked under SpecBuffer *)

\* C1: after N add_metric calls since construction or the last clear(), on a
\* buffer of capacity C >= 1, get_values() and get_timestamps() each return
\* exactly min(N, C) entries: the values (timestamps) of the last min(N, C) calls,
\* oldest first.
C1_BufferHoldsLastSamples ==
    LET n == Len(added)
        k == Min(n, storage.max_points)
    IN  /\ Len(get_values(storage)) = k
        /\ Len(get_timestamps(storage)) = k
        /\ \A i \in 1..k :
              /\ get_values(storage)[i]     = added[n - k + i][2]
              /\ get_timestamps(storage)[i] = added[n - k + i][1]

\* the case of C1 with eviction: more additions than cells, on a buffer of three
\* cells or more, the evicted sample differing from the newest one
C1_Wrapped ==
    /\ storage.max_points >= 3
    /\ Len(added) > storage.max_points
    /\ added[1] /= added[Len(added)]
    /\ storage.current_index /= 0

\* C2: an array a getter returned keeps its content and its length whatever the
\* writer does afterwards.
C2_HeldArrayNeverChanges ==
    held.kind /= "none" =>
        /\ Len(Deref(held, storage)) = held.len
        /\ Deref(held, storage) = held.data

-----------------------------------------------------------------------------
(* Properties of the alerter, checked under SpecAlert *)

\* C3: in every evaluation, for every metric with a configured limit, a
\* notification is decided if and only if value > limit and
\* now - last_fired > grace_period (last_fired read as 0 when the metric has no
\* entry), and a metric that fires has its entry set to now.
C3_FiresIffOverLimitAndCooledDown ==
    lastEval.done =>
        \A m \in DOMAIN thresholds :
            /\ (m \in lastEval.fired) <=>
                  (/\ lastEval.value[m] > thresholds[m]
                   /\ lastEval.at - dict_get(lastEval.before, m, 0) > grace_period)
            /\ (m \in lastEval.fired) =>
                  (/\ m \in DOMAIN notification_cooldown
                   /\ notification_cooldown[m] = lastEval.at)

\* C4: a metric that has never fired fires on its first sample above the limit,
\* whatever the time (stated for the evaluations that run to their end).
C4_NeverFiredIsArmed ==
    (lastEval.done /\ ~lastEval.raised) =>
        \A m \in DOMAIN thresholds :
            (/\ m \notin DOMAIN lastEval.issued
             /\ lastEval.value[m] > thresholds[m]) => m \in lastEval.fired

\* C5: two notifications decided for the same metric are more than grace_period
\* apart: when a metric fires and has fired before, the time since that earlier
\* firing exceeds the grace period.
C5_FiringsMoreThanGraceApart ==
    lastEval.done =>
        \A m \in lastEval.fired :
            m \in DOMAIN lastEval.issued =>
                lastEval.at - lastEval.issued[m] > grace_period

\* the case of C5: a metric fires for the second time
C5_SecondFiring ==
    /\ lastEval.done
    /\ \E m \in lastEval.fired : m \in DOMAIN lastEval.issued

-----------------------------------------------------------------------------
(* Properties of the sampling loop, checked under Spec *)

\* C6: when the sampler has given no snapshot three times in a row, the loop's
\* update_interval is min(2.0 s, 1.5 x the interval it had when the failures began).
C6_BackoffAfterThreeSamplerFailures ==
    fail_streak = max_errors =>
        2 * update_interval = Min(2 * max_update_interval, 3 * streak_base)

\* C7: after a successful sample (snapshot read, stored and handed on) the loop's
\* error counter is 0.
C7_SuccessResetsErrorCount ==
    outcome = "ok" => error_count = 0

\* C8: in every reachable state, for every configured interval in 0.1 s .. 5.0 s,
\* update_interval is at least 0.1 s and at most the 2.0 s ceiling.
C8_IntervalWithinFloorAndCeiling ==
    /\ min_update_interval <= update_interval
    /\ update_interval <= max_update_interval

\* C9: update_stats returns only after running has been set to false: no sampler
\* failure, storage error or exception in the loop body ends the loop.
C9_LoopEndsOnlyOnStop ==
    pc = "done" => ~running

\* the case of C9: the loop has been through an exception or a storage error and
\* through a sampler failure, no stop was requested, and it is at its head again
C9_RunningAfterErrors ==
    /\ running
    /\ pc = "head"
    /\ error_count > 0
    /\ fail_streak > 0

\* C10: once stop is requested, also with a sample in flight, the loop stores no
\* further sample and hands no further callback to Tk.
C10_NothingStoredAfterStop ==
    [][~running => (series' = series /\ Len(tkQueue') <= Len(tkQueue))]_vars

\* C11: stop is idempotent and Stopped is terminal: on_closing applied to what
\* on_closing left gives the same state, once running is false no step sets it
\* (or Tk's mainloop) back, and a sampling thread that has returned never runs again.
C11_StopIdempotentAndTerminal ==
    /\ [](on_closing(on_closing(closing_state)) = on_closing(closing_state))
    /\ [][/\ ~running => ~running'
          /\ ~mainloop => ~mainloop'
          /\ pc = "done" => pc' = "done"]_vars

\* the case of C11: stop was requested while callbacks were waiting, and the
\* sampling thread has returned
C11_Stopped ==
    /\ ~running
    /\ ~mainloop
    /\ pc = "done"
    /\ tkQueue /= << >>

-----------------------------------------------------------------------------
(* Properties of the sampler, checked under SpecSampler *)

\* C12: when the read of one metric fails, _get_system_metrics still returns a
\* snapshot, with the failed metric unavailable (no percentage) and the other
\* metrics at their validated readings.
C12_OneFailureLeavesOthersReported ==
    (lastSample.done /\ lastSample.os.fault /= "none") =>
        LET os     == lastSample.os
            failed == IF os.fault \in GpuUnavailable THEN "gpu" ELSE os.fault
        IN  /\ lastSample.metrics.ok
            /\ \A m \in MetricSet \ {failed} : lastSample.metrics[m] = clamp(os[m])
            /\ lastSample.metrics[failed] \notin 0..100

\* C13: when the GPU reading is unavailable (GPUtil absent, no GPU listed, load
\* None, or the query raising), the check of that snapshot decides and delivers no
\* GPU notification, whatever the GPU limit and the cooldown state.
C13_NoGpuAlertWhenGpuUnavailable ==
    (/\ lastSample.done
     /\ lastSample.checked
     /\ lastSample.os.fault \in GpuUnavailable) =>
        /\ "gpu" \notin lastEval.fired
        /\ "gpu" \notin lastEval.delivered

\* the case of C13: the GPU is unavailable while GPUtil's figure is above the
\* limit 0, the GPU's cooldown is over, and the same check fires for the CPU
C13_GpuUnavailableOtherFires ==
    /\ lastSample.done
    /\ lastSample.checked
    /\ lastSample.os.fault \in GpuUnavailable
    /\ lastSample.os.gpu > 100
    /\ thresholds["gpu"] = 0
    /\ "gpu" \in DOMAIN lastEval.before
    /\ lastEval.at - lastEval.before["gpu"] > grace_period
    /\ "cpu" \in lastEval.fired

\* C14: every percentage of a snapshot lies in [0,100]: a raw reading below 0
\* gives 0, one above 100 gives 100, one inside the range is kept, and validating
\* a validated value changes nothing.
C14_SnapshotClamped ==
    (lastSample.done /\ lastSample.metrics.ok) =>
        \A m \in MetricSet :
            LET raw == IF m = "gpu" THEN get_gpu_usage(lastSample.os)
                                    ELSE lastSample.os[m]
                v   == lastSample.metrics[m]
            IN  /\ v \in 0..100
                /\ raw < 0 => v = 0
                /\ raw > 100 => v = 100
                /\ raw \in 0..100 => v = raw
                /\ clamp(v) = v

\* the case of C14: one snapshot with a reading below 0, one above 100 and one
\* inside the range
C14_OutOfRangeReadings ==
    /\ lastSample.done
    /\ lastSample.metrics.ok
    /\ lastSample.os.fault = "none"
    /\ lastSample.os.cpu < 0
    /\ lastSample.os.ram > 100
    /\ lastSample.os.gpu = 50

-----------------------------------------------------------------------------
(* Properties of the loop's pacing, checked under SpecHost *)

\* C15: the loop goes on to sample only when current_time - last_update_time is
\* at least update_interval, and a sample is stored no earlier than one full
\* update_interval after the sample stored before it.
C15_SamplesOneIntervalApart ==
    [][/\ (pc = "pace" /\ pc' = "sample") =>
              current_time - last_update_time >= update_interval
       /\ (series' /= series /\ get_timestamps(series["cpu"]) /= << >>) =>
              LET before == get_timestamps(series["cpu"])
                  after  == get_timestamps(series["cpu"]')
              IN  after[Len(after)] - before[Len(before)] >= update_interval
      ]_vars

\* C15 as amended: the same with 0.9 x update_interval in place of update_interval.
C15_SamplesNineTenthsApart ==
    [][/\ (pc = "pace" /\ pc' = "sample") =>
              10 * (current_time - last_update_time) >= 9 * update_interval
       /\ (series' /= series /\ get_timestamps(series["cpu"]) /= << >>) =>
              LET before == get_timestamps(series["cpu"])
                  after  == get_timestamps(series["cpu"]')
              IN  10 * (after[Len(after)] - before[Len(before)]) >= 9 * update_interval
      ]_vars

\* the case of C15: two samples stored one after the other, less than one
\* interval but at least nine tenths of it apart
C15_StoredWithinTolerance ==
    LET ts == get_timestamps(series["cpu"])
    IN  /\ outcome = "ok"
        /\ pc = "head"
        /\ Len(ts) >= 2
        /\ ts[Len(ts)] - ts[Len(ts) - 1] < update_interval
        /\ 10 * (ts[Len(ts)] - ts[Len(ts) - 1]) >= 9 * update_interval

-----------------------------------------------------------------------------
(* Properties of the hand-off from the loop to the UI, checked under Spec *)

\* C16: a successful sample is appended once to each of the three series, handed
\* to the UI once and evaluated against the thresholds once, as that snapshot; a
\* failed sample is neither appended, handed on nor evaluated, and nothing else
\* appends, hands on or evaluates.
C16_OneAppendHandoffEvaluationPerSample ==
    [][/\ (pc = "store" /\ pc' /= "store") =>
              \A m \in MetricSet :
                  series'[m] = add_metric(series[m], snapshot[m], current_time)
       /\ (pc = "locked" /\ pc' /= "locked") =>
              Cardinality({i \in DOMAIN tkQueue' : tkQueue'[i].fn = "update_ui"})
                = Cardinality({i \in DOMAIN tkQueue : tkQueue[i].fn = "update_ui"}) + 1
       /\ (tkQueue /= << >> /\ tkQueue' = Tail(tkQueue) /\ Head(tkQueue).fn = "update_ui") =>
              /\ lastEval'.done
              /\ lastEval'.at = now
              /\ lastEval'.value = [m \in MetricSet |-> Head(tkQueue).of[m]]
       /\ (pc = "sample" /\ pc' = "head") =>
              /\ series' = series
              /\ tkQueue' = tkQueue
              /\ lastEval' = lastEval
       /\ series' /= series => pc = "store"
       /\ Len(tkQueue') > Len(tkQueue) => pc = "locked"
      ]_vars

\* C17: the values update_ui receives, and checks against the thresholds, are
\* the values of the sample its callback was created for, also when Tk runs the
\* callback after the loop has read a later sample.
C17_UiReceivesItsSample ==
    [][(tkQueue /= << >> /\ tkQueue' = Tail(tkQueue) /\ Head(tkQueue).fn = "update_ui") =>
           \A m \in MetricSet : lastEval'.value[m] = Head(tkQueue).of[m]]_vars

-----------------------------------------------------------------------------
(* Properties of the locks and of the contexts, checked under Spec *)

\* C18: the sampling thread holds no lock while a call of _get_system_metrics is
\* about to run or running (in the periodic-logging branch or on the cadence path);
\* it holds the metrics lock only inside the block that appends.
C18_NoLockWhileSampling ==
    /\ pc \in {"log", "sample"} => locks = {}
    /\ locks /= {} => (pc = "locked" /\ locks = {"metrics_lock"})

\* the case of C18: a sample was stored under the lock, the lock was given back,
\* and the thread is at its next sampler call
C18_SamplingAfterStore ==
    /\ pc = "sample"
    /\ outcome = "ok"
    /\ locks = {}
    /\ get_values(series["cpu"]) /= << >>

-----------------------------------------------------------------------------
(* Properties of the configuration, checked under SpecReload *)

\* C20: after the interval setting is changed while the loop runs, the loop's
\* next wait is computed from the new setting (as the start computes it:
\* max(0.5 s, setting)), without a restart.
C20_IntervalChangeTakesEffect ==
    [][(interval_changed /\ running /\ pc = "pace" /\ pc' = "head") =>
           now' - now = sleep_time(elapsed, Max(floor_interval, configured))]_vars

-----------------------------------------------------------------------------
(* Properties of the configuration at the start, checked under SpecConfig *)

\* C21: for every content of config.json (missing, unreadable, no JSON, JSON of
\* the wrong shape) load_settings returns a dict that has every key of the
\* compiled-in defaults, and the start of the application does not end in an
\* exception on account of the configuration.
C21_MalformedConfigNeverCrashes ==
    /\ stage /= "new" => (DOMAIN default_settings) \subseteq (DOMAIN settings)
    /\ stage /= "crashed"

\* C28: after load_settings the thresholds mapping has a limit for each of cpu,
\* ram and gpu, whatever config.json holds, and no evaluation of a snapshot is
\* ended by a missing limit: each of the three metrics is decided by the rule.
C28_ThresholdsComplete ==
    /\ stage /= "new" => DOMAIN settings["thresholds"].members = MetricSet
    /\ (stage = "started" /\ lastEval.done) =>
          /\ ~lastEval.raised
          /\ \A m \in MetricSet :
                (m \in lastEval.fired) <=>
                    (/\ m \in DOMAIN thresholds
                     /\ exceeds(lastEval.value[m], thresholds[m])
                     /\ cooled_down(lastEval.at, lastEval.before, m, grace_period))

-----------------------------------------------------------------------------
(* Properties of the alerter's notifications, checked under SpecAlert *)

\* C22: when the notification sink raises, nothing of it reaches the caller (an
\* evaluation is ended early only by a missing limit), every metric that fired
\* has its firing time recorded, so that it is not cooled down again within the
\* grace period, and the evaluation decides every metric as it would with a
\* working sink: with all limits there, each of the three by the rule.
C22_SinkFailureSwallowed ==
    (lastEval.done /\ lastEval.sink_raised) =>
        LET working == check_thresholds(lastEval.value, thresholds, grace_period,
                                        lastEval.before, lastEval.at, TRUE, TRUE)
        IN  /\ lastEval.raised => DOMAIN thresholds /= MetricSet
            /\ lastEval.fired /= {}
            /\ lastEval.delivered = {}
            /\ \A m \in lastEval.fired :
                  /\ m \in DOMAIN notification_cooldown
                  /\ notification_cooldown[m] = lastEval.at
                  /\ \A later \in lastEval.at..(lastEval.at + grace_period) :
                        ~cooled_down(later, notification_cooldown, m, grace_period)
            /\ lastEval.fired = working.fired
            /\ notification_cooldown = working.cooldown
            /\ lastEval.raised = working.raised
            /\ DOMAIN thresholds = MetricSet =>
                  \A m \in MetricSet :
                      (m \in lastEval.fired) <=>
                          (/\ exceeds(lastEval.value[m], thresholds[m])
                           /\ cooled_down(lastEval.at, lastEval.before, m, grace_period))

\* the case of C22: the sink raised on the CPU's notification, and the RAM, over
\* its limit in the same snapshot, was evaluated and fired as well, while the GPU
\* was evaluated and did not fire
C22_SinkRaisedOthersEvaluated ==
    /\ lastEval.done
    /\ lastEval.sink_raised
    /\ DOMAIN thresholds = MetricSet
    /\ lastEval.fired = {"cpu", "ram"}
    /\ lastEval.delivered = {}
    /\ ~lastEval.raised

\* C23: an evaluation in which a metric does not fire leaves that metric's entry
\* of notification_cooldown as it was (the cooldown is never extended), and a
\* metric that fired at time t fires on the first sample above its limit that is
\* evaluated more than grace_period after t, whatever was evaluated in between.
C23_CooldownTimeBased ==
    lastEval.done =>
        \A m \in MetricSet :
            /\ m \notin lastEval.fired =>
                  /\ (m \in DOMAIN notification_cooldown) <=> (m \in DOMAIN lastEval.before)
                  /\ m \in DOMAIN lastEval.before =>
                        notification_cooldown[m] = lastEval.before[m]
            /\ m \in DOMAIN lastEval.issued =>
                  /\ m \in DOMAIN lastEval.before
                  /\ lastEval.before[m] = lastEval.issued[m]
                  /\ (/\ exceeds(lastEval.value[m], thresholds[m])
                      /\ lastEval.at - lastEval.issued[m] > grace_period) =>
                        m \in lastEval.fired

\* the case of C23: a metric fires again at the first moment after its grace
\* period, having been through an evaluation without firing since it fired
C23_FiresAgainAfterQuietSamples ==
    /\ lastEval.done
    /\ \E m \in lastEval.fired :
          /\ m \in DOMAIN lastEval.issued
          /\ m \in lastEval.resampled
          /\ lastEval.at - lastEval.issued[m] = grace_period + 1

\* C29: while show_notifications is false an evaluation delivers nothing to the
\* sink and changes no metric's last-fired time.
C29_DisabledLeavesArmed ==
    [][(~show_notifications /\ lastEval' /= lastEval) =>
           /\ lastEval'.delivered = {}
           /\ notification_cooldown' = notification_cooldown]_vars

-----------------------------------------------------------------------------
(* Properties of clear(), checked under SpecBuffer *)

\* C24: after clear(), get_values() and get_timestamps() are empty, and after
\* any sequence of add_metric calls that follows they return what a newly
\* constructed buffer of the same capacity returns after the same calls.
C24_ClearedBufferLikeNew ==
    cleared /= "never" =>
        LET RECURSIVE replay(_, _)
            replay(s, adds) ==
                IF adds = << >> THEN s
                ELSE replay(add_metric(s, adds[1][2], adds[1][1]), Tail(adds))
            fresh == replay(OptimizedMetricStorage(storage.max_points), added)
        IN  /\ get_values(storage) = get_values(fresh)
            /\ get_timestamps(storage) = get_timestamps(fresh)
            /\ added = << >> =>
                  /\ get_values(storage) = << >>
                  /\ get_timestamps(storage) = << >>

\* the case of C24: a buffer that had wrapped was cleared, and has been filled
\* past its capacity again with values other than the zeros clear() writes
C24_ClearedAndWrappedAgain ==
    /\ cleared = "wrapped"
    /\ storage.max_points >= 2
    /\ Len(added) > storage.max_points
    /\ \A i \in 1..Len(added) : added[i][2] /= 0

-----------------------------------------------------------------------------
(* Properties of the three series in the running loop, checked under Spec *)

\* C25: in every reachable state each series holds at most max_points samples,
\* and get_timestamps() returns them oldest first, in non-decreasing order.
C25_SeriesBoundedAndOrdered ==
    \A m \in MetricSet :
        LET ts == get_timestamps(series[m])
        IN  /\ Len(ts) <= series[m].max_points
            /\ Len(get_values(series[m])) = Len(ts)
            /\ \A i \in 1..Len(ts) : \A j \in i..Len(ts) : ts[i] <= ts[j]

\* the case of C25: the loop is running and has stored more samples than a series
\* holds, so that the oldest sample lies behind the newest one in the array
C25_SeriesWrapped ==
    /\ running
    /\ pc = "head"
    /\ series["cpu"].is_filled
    /\ series["cpu"].current_index = 1
    /\ get_timestamps(series["cpu"])[1] < get_timestamps(series["cpu"])[2]

-----------------------------------------------------------------------------
(* Properties of the loop after a failed sample, checked under Spec *)

\* C26: two consecutive sampler calls of the cadence path are at least
\* 0.9 x update_interval apart, also when the earlier call gave no snapshot:
\* after a failed sample the loop does not go on to its next sampler call before
\* that much time has passed since the failed call began.
C26_RetryPaced ==
    [][(outcome = "no_snapshot" /\ pc = "pace" /\ pc' = "sample") =>
           10 * (now - attempt_time) >= 9 * update_interval]_vars

-----------------------------------------------------------------------------
(* Properties of a reader of the series, checked under SpecReader *)

\* C27: when update_graph has read the cpu timestamps and the cpu, ram and gpu
\* values, the four sequences have the same length and hold the entries of the
\* same samples, however its reads interleave with the appends of the sampling
\* thread.
C27_ReaderSeesOneSampleSet ==
    Len(reader) = Len(GraphReads) =>
        \A i \in 2..Len(reader) :
            /\ Len(reader[i].data) = Len(reader[1].data)
            /\ reader[i].of = reader[1].of

-----------------------------------------------------------------------------
(* Progress of the loop, checked under SpecLive *)

\* C30: from every state in which the loop is running and at its head (early
\* enough for one sampler call of the logging branch and one wait to end inside
\* the run) the thread in the end reaches the sampler call of the cadence path,
\* unless the loop is stopped or an exception is raised in its body: it never
\* goes on sleeping or re-checking without sampling.  And from that sampler call
\* the loop in the end is back at its head with the sample stored in every
\* series and its UI refresh handed to Tk, unless it is stopped, the sampler
\* gave no snapshot or the storing block raised.
C30_Progress ==
    /\ (/\ running
        /\ pc = "head"
        /\ now + update_interval + sample_cost <= StartTime + MaxRunTicks)
       ~> (pc = "sample" \/ pc = "except" \/ ~running)
    /\ (/\ running
        /\ pc = "sample"
        /\ now + sample_cost <= StartTime + MaxRunTicks)
       ~> (\/ /\ pc = "head"
              /\ outcome = "ok"
              /\ \A m \in MetricSet :
                    LET ts == get_timestamps(series[m])
                    IN  ts /= << >> /\ ts[Len(ts)] = last_update_time
              /\ \E i \in DOMAIN tkQueue : tkQueue[i].fn = "update_ui"
              /\ \E i \in DOMAIN tkQueue : tkQueue[i].fn = "update_graph"
           \/ pc = "head" /\ outcome \in {"no_snapshot", "store_error"}
           \/ ~running)

\* the case of C30: the loop has waited in its pacing, sampled, stored a second
\* sample in every series and handed its refresh to Tk, with no failure on the way
C30_StoredAfterWaiting ==
    /\ running
    /\ pc = "head"
    /\ outcome = "ok"
    /\ error_count = 0
    /\ fail_streak = 0
    /\ \A m \in MetricSet : Len(get_timestamps(series[m])) = 2
    /\ \E i \in DOMAIN tkQueue : tkQueue[i].fn = "update_ui"

=============================================================================
